---- MODULE Spec2Model ----
(***************************************************************************)
(* Model of update_permits.py: the ADU permit pipeline that fetches each   *)
(* configured city source, parses its CSV rows, normalizes them into the   *)
(* eleven-column unified row, sorts by Approval_Date and writes            *)
(* adu_permits.csv.                                                        *)
(*                                                                         *)
(* Python str values are TLA+ strings; a Python dict with str keys is a    *)
(* function whose DOMAIN is its key set.  A csv.DictReader row is a        *)
(* sequence of cells in column order, each cell carrying a key and a value *)
(* that may be None (restkey / restval).                                   *)
(***************************************************************************)
EXTENDS Integers, Sequences, FiniteSets, TLC

(***************************************************************************)
(* Bounds of the model.                                                    *)
(***************************************************************************)
MaxSources == 2
MaxRecords == 1

(***************************************************************************)
(* str helpers                                                             *)
(***************************************************************************)
Ch(s, i) == SubSeq(s, i, i)

Whitespace == {" ", "\t", "\n", "\r"}

RECURSIVE LStripSet(_, _)
LStripSet(s, chars) ==
    IF Len(s) > 0 /\ Ch(s, 1) \in chars
    THEN LStripSet(SubSeq(s, 2, Len(s)), chars)
    ELSE s

RECURSIVE RStripSet(_, _)
RStripSet(s, chars) ==
    IF Len(s) > 0 /\ Ch(s, Len(s)) \in chars
    THEN RStripSet(SubSeq(s, 1, Len(s) - 1), chars)
    ELSE s

\* str.strip(): remove leading and trailing whitespace
Strip(s) == RStripSet(LStripSet(s, Whitespace), Whitespace)

\* str.strip("-"): remove leading and trailing hyphens
StripHyphens(s) == RStripSet(LStripSet(s, {"-"}), {"-"})

LowerLetters == <<"a","b","c","d","e","f","g","h","i","j","k","l","m",
                  "n","o","p","q","r","s","t","u","v","w","x","y","z">>
UpperLetters == <<"A","B","C","D","E","F","G","H","I","J","K","L","M",
                  "N","O","P","Q","R","S","T","U","V","W","X","Y","Z">>

\* lower-case letter -> upper-case letter, and back
UpperMap ==
    [c \in { LowerLetters[i] : i \in 1..26 } |->
        UpperLetters[CHOOSE i \in 1..26 : LowerLetters[i] = c]]

LowerMap ==
    [c \in { UpperLetters[i] : i \in 1..26 } |->
        LowerLetters[CHOOSE i \in 1..26 : UpperLetters[i] = c]]

UpperCh(c) == IF c \in DOMAIN UpperMap THEN UpperMap[c] ELSE c

LowerCh(c) == IF c \in DOMAIN LowerMap THEN LowerMap[c] ELSE c

RECURSIVE Upper(_)
Upper(s) == IF s = "" THEN "" ELSE UpperCh(Ch(s, 1)) \o Upper(SubSeq(s, 2, Len(s)))

RECURSIVE Lower(_)
Lower(s) == IF s = "" THEN "" ELSE LowerCh(Ch(s, 1)) \o Lower(SubSeq(s, 2, Len(s)))

\* the Python `sub in s` test on strings
Contains(s, sub) ==
    \E i \in 1..(Len(s) - Len(sub) + 1) : SubSeq(s, i, i + Len(sub) - 1) = sub

StartsWith(s, pre) == Len(s) >= Len(pre) /\ SubSeq(s, 1, Len(pre)) = pre

\* s.split(sep)[0] for a one-character separator
RECURSIVE SplitFirst(_, _)
SplitFirst(s, sep) ==
    IF s = "" \/ Ch(s, 1) = sep
    THEN ""
    ELSE Ch(s, 1) \o SplitFirst(SubSeq(s, 2, Len(s)), sep)

\* sep.join(parts)
RECURSIVE Join(_, _)
Join(sep, parts) ==
    IF Len(parts) = 0 THEN ""
    ELSE IF Len(parts) = 1 THEN parts[1]
    ELSE parts[1] \o sep \o Join(sep, Tail(parts))

(***************************************************************************)
(* dict helpers                                                            *)
(***************************************************************************)
EmptyDict == [k \in {} |-> ""]

\* d[k] = v on a dict
DictSet(d, k, v) == (k :> v) @@ d

\* `raw.get(k) or ""` on a dict of strings: a missing key and "" both give ""
GetOrEmpty(raw, k) == IF k \in DOMAIN raw THEN raw[k] ELSE ""

\* `raw.get(n1) or raw.get(n2) or ... or ""`: the first truthy value
RECURSIVE OrChain(_, _)
OrChain(raw, names) ==
    IF Len(names) = 0 THEN ""
    ELSE IF GetOrEmpty(raw, Head(names)) # "" THEN raw[Head(names)]
    ELSE OrChain(raw, Tail(names))

OUTPUT_FIELDNAMES ==
    << "City", "Project_Name", "ADU_Type", "Status", "Permit_Number", "Parcel",
       "Zone", "ADU_Size_Sqft", "Approval_Date", "Source_URL", "Notes" >>

OutputFieldSet == { OUTPUT_FIELDNAMES[i] : i \in 1..Len(OUTPUT_FIELDNAMES) }

\* variant: the row starts without the blank defaults
BlankRowCityOnly == [k \in {"City"} |-> ""]

\* out = {k: "" for k in OUTPUT_FIELDNAMES}
BlankRow == [k \in OutputFieldSet |-> ""]

(***************************************************************************)
(* parse_csv_text: strip every key and value of a DictReader row, turn a   *)
(* None value into "", drop a None key.                                    *)
(***************************************************************************)
Cell(k, v) == [k |-> k, v |-> v, knone |-> FALSE, vnone |-> FALSE]
ShortCell(k) == [k |-> k, v |-> "", knone |-> FALSE, vnone |-> TRUE]
RestCell == [k |-> "", v |-> "", knone |-> TRUE, vnone |-> FALSE]

\* (v or "").strip()
NormValue(cell) == IF cell.vnone THEN "" ELSE Strip(cell.v)

RECURSIVE NormRow(_, _)
NormRow(cells, acc) ==
    IF Len(cells) = 0 THEN acc
    ELSE LET c == Head(cells)
         IN  NormRow(Tail(cells),
                     IF c.knone THEN acc ELSE DictSet(acc, Strip(c.k), NormValue(c)))

RECURSIVE parse_csv_text(_)
parse_csv_text(reader) ==
    IF Len(reader) = 0 THEN << >>
    ELSE << NormRow(Head(reader), EmptyDict) >> \o parse_csv_text(Tail(reader))

(***************************************************************************)
(* normalize_bellevue_adu                                                  *)
(***************************************************************************)
\* project name, with the "ADU project" label when no candidate has a value
BellevueProjectName(raw) ==
    LET project_name == Strip(OrChain(raw, << "PROJECT NAME", "Project Name", "PROJECT_NAME" >>))
    IN  IF project_name = "" THEN "ADU project" ELSE project_name

\* variant: the conversion keywords are tested before the detached ones
BellevueAduTypeConversionFirst(raw) ==
    LET text_all == Upper(Join(" ", << BellevueProjectName(raw), GetOrEmpty(raw, "PERMIT TYPE") >>))
    IN  IF Contains(text_all, "CONVERSION") \/ Contains(text_all, "GARAGE")
        THEN "Conversion ADU"
        ELSE IF Contains(text_all, "DETACHED") \/ Contains(text_all, "DADU")
                \/ Contains(text_all, "BACKYARD")
        THEN "Detached ADU"
        ELSE "Attached/Unknown ADU"

\* rough classification from the project name and PERMIT TYPE
BellevueAduType(raw) ==
    LET text_all == Upper(Join(" ", << BellevueProjectName(raw), GetOrEmpty(raw, "PERMIT TYPE") >>))
    IN  IF Contains(text_all, "DETACHED") \/ Contains(text_all, "DADU")
           \/ Contains(text_all, "BACKYARD")
        THEN "Detached ADU"
        ELSE IF Contains(text_all, "CONVERSION") \/ Contains(text_all, "GARAGE")
        THEN "Conversion ADU"
        ELSE "Attached/Unknown ADU"

BellevueStatus(raw) == Strip(OrChain(raw, << "PERMIT STATUS", "Permit Status", "STATUS" >>))

\* the direct permit-number field, else PERMIT YEAR + "-" + PERMIT SEQUENCE
BellevuePermitNumber(raw) ==
    LET permit_number == Strip(OrChain(raw, << "PERMIT NUMBER", "Permit Number", "PERMITNUMBER" >>))
        year == Strip(GetOrEmpty(raw, "PERMIT YEAR"))
        seq == Strip(GetOrEmpty(raw, "PERMIT SEQUENCE"))
    IN  IF permit_number # "" THEN permit_number
        ELSE IF year # "" \/ seq # "" THEN StripHyphens(year \o "-" \o seq)
        ELSE permit_number

BellevueParcel(raw) == Strip(OrChain(raw, << "PARCEL NUMBER", "Parcel Number", "PARCEL" >>))

date_fields == << "ISSUE DATE", "Issue Date", "APPROVAL DATE", "Approval Date" >>

\* the first date field with a non-blank value, cut at the first "T"
RECURSIVE FirstDate(_, _)
FirstDate(raw, fields) ==
    IF Len(fields) = 0 THEN ""
    ELSE IF Head(fields) \in DOMAIN raw /\ Strip(raw[Head(fields)]) # ""
    THEN SplitFirst(Strip(raw[Head(fields)]), "T")
    ELSE FirstDate(raw, Tail(fields))

BellevueApprovalDate(raw) == FirstDate(raw, date_fields)

BellevueSourceUrl(raw) == Strip(OrChain(raw, << "LINK", "Link", "URL", "PERMIT URL" >>))

\* "Address: .. | ZIP: .. | Permit year: .. | Parcel: .. | Status: .."
BellevueNotes(raw) ==
    LET address == Strip(OrChain(raw, << "ADDRESS", "Address" >>))
        zip_code == Strip(OrChain(raw, << "ZIP CODE", "ZIP", "Zip Code" >>))
        permit_year == Strip(GetOrEmpty(raw, "PERMIT YEAR"))
        parcel == BellevueParcel(raw)
        status == BellevueStatus(raw)
        notes_parts ==
            (IF address # "" THEN << "Address: " \o address >> ELSE << >>)
            \o (IF zip_code # "" THEN << "ZIP: " \o zip_code >> ELSE << >>)
            \o (IF permit_year # "" THEN << "Permit year: " \o permit_year >> ELSE << >>)
            \o (IF parcel # "" THEN << "Parcel: " \o parcel >> ELSE << >>)
            \o (IF status # "" THEN << "Status: " \o status >> ELSE << >>)
    IN  Join(" | ", notes_parts)

normalize_bellevue_adu(raw) ==
    [ City          |-> "Bellevue",
      Project_Name  |-> BellevueProjectName(raw),
      ADU_Type      |-> BellevueAduType(raw),
      Status        |-> BellevueStatus(raw),
      Permit_Number |-> BellevuePermitNumber(raw),
      Parcel        |-> BellevueParcel(raw),
      Zone          |-> "",
      ADU_Size_Sqft |-> "",
      Approval_Date |-> BellevueApprovalDate(raw),
      Source_URL    |-> BellevueSourceUrl(raw),
      Notes         |-> BellevueNotes(raw) ] @@ BlankRow

(***************************************************************************)
(* normalize_generic_csv                                                   *)
(***************************************************************************)
mapping_candidates ==
    [ Project_Name  |-> << "Project_Name", "PROJECT NAME", "Project", "Description" >>,
      ADU_Type      |-> << "ADU_Type", "Type" >>,
      Status        |-> << "Status", "PERMIT STATUS" >>,
      Permit_Number |-> << "Permit_Number", "PERMIT NUMBER", "Permit #" >>,
      Parcel        |-> << "Parcel", "PARCEL NUMBER" >>,
      Zone          |-> << "Zone", "Zoning" >>,
      ADU_Size_Sqft |-> << "ADU_Size_Sqft", "Size", "Square Feet" >>,
      Approval_Date |-> << "Approval_Date", "ISSUE DATE", "Issue Date", "Date" >>,
      Source_URL    |-> << "Source_URL", "Link", "URL" >>,
      Notes         |-> << "Notes", "Comments" >> ]

\* `cand in raw and raw[cand]`
CandidateHit(raw, cand) == cand \in DOMAIN raw /\ raw[cand] # ""

HasCandidate(raw, candidates) ==
    \E i \in 1..Len(candidates) : CandidateHit(raw, candidates[i])

\* the value assigned at the first hit, after which the inner loop breaks
FirstCandidate(raw, candidates) ==
    LET i == CHOOSE j \in 1..Len(candidates) :
                 /\ CandidateHit(raw, candidates[j])
                 /\ \A h \in 1..(j - 1) : ~CandidateHit(raw, candidates[h])
    IN  Strip(raw[candidates[i]])

normalize_generic_csv(city_name, raw) ==
    [ f \in { g \in DOMAIN mapping_candidates : HasCandidate(raw, mapping_candidates[g]) }
        |-> FirstCandidate(raw, mapping_candidates[f]) ]
    @@ ("City" :> city_name) @@ BlankRow

(***************************************************************************)
(* datetime.fromisoformat(s).date() as an integer key yyyymmdd.  The forms *)
(* modelled are the ones every supported interpreter parses alike: a       *)
(* YYYY-MM-DD date, optionally followed by one separator character and an  *)
(* HH:MM:SS time.  Anything else raises ValueError.                        *)
(***************************************************************************)
Digits == << "0", "1", "2", "3", "4", "5", "6", "7", "8", "9" >>

DigitMap == [c \in { Digits[i] : i \in 1..10 } |-> (CHOOSE i \in 1..10 : Digits[i] = c) - 1]

IsDigit(c) == c \in DOMAIN DigitMap

DigitVal(c) == DigitMap[c]

AllDigits(s) == \A i \in 1..Len(s) : IsDigit(Ch(s, i))

RECURSIVE IntOf(_)
IntOf(s) == IF s = "" THEN 0 ELSE IntOf(SubSeq(s, 1, Len(s) - 1)) * 10 + DigitVal(Ch(s, Len(s)))

IsLeap(y) == (y % 4 = 0 /\ y % 100 # 0) \/ y % 400 = 0

DaysInMonth(y, m) ==
    IF m = 2 THEN (IF IsLeap(y) THEN 29 ELSE 28)
    ELSE IF m \in {4, 6, 9, 11} THEN 30 ELSE 31

IsCalendarDate(s) ==
    /\ Len(s) = 10
    /\ Ch(s, 5) = "-" /\ Ch(s, 8) = "-"
    /\ AllDigits(SubSeq(s, 1, 4)) /\ AllDigits(SubSeq(s, 6, 7)) /\ AllDigits(SubSeq(s, 9, 10))
    /\ LET y == IntOf(SubSeq(s, 1, 4))
           m == IntOf(SubSeq(s, 6, 7))
           d == IntOf(SubSeq(s, 9, 10))
       IN  y >= 1 /\ m \in 1..12 /\ d \in 1..DaysInMonth(y, m)

IsClockTime(s) ==
    /\ Len(s) = 8
    /\ Ch(s, 3) = ":" /\ Ch(s, 6) = ":"
    /\ AllDigits(SubSeq(s, 1, 2)) /\ AllDigits(SubSeq(s, 4, 5)) /\ AllDigits(SubSeq(s, 7, 8))
    /\ IntOf(SubSeq(s, 1, 2)) <= 23 /\ IntOf(SubSeq(s, 4, 5)) <= 59
    /\ IntOf(SubSeq(s, 7, 8)) <= 59

\* fromisoformat(s) returns rather than raises
IsoParsable(s) ==
    \/ IsCalendarDate(s)
    \/ Len(s) = 19 /\ IsCalendarDate(SubSeq(s, 1, 10)) /\ IsClockTime(SubSeq(s, 12, 19))

DateKey(s) ==
    IntOf(SubSeq(s, 1, 4)) * 10000 + IntOf(SubSeq(s, 6, 7)) * 100 + IntOf(SubSeq(s, 9, 10))

\* dt.date(1970, 1, 1)
EpochKey == 19700101

parse_date(s) == IF IsoParsable(s) THEN DateKey(s) ELSE EpochKey

\* r.get("Approval_Date", "")
SortKey(r) == parse_date(IF "Approval_Date" \in DOMAIN r THEN r["Approval_Date"] ELSE "")

\* variant: the sort without reverse=True
StaysAheadAscending(k_earlier, k_later) == k_earlier <= k_later

\* reverse=True: a row stays ahead of a later row unless the later key is greater
StaysAhead(k_earlier, k_later) == k_earlier >= k_later

\* insert r behind every row that stays ahead of it (the sort is stable)
RECURSIVE InsertRow(_, _)
InsertRow(sorted, r) ==
    IF Len(sorted) = 0 THEN << r >>
    ELSE IF StaysAhead(SortKey(Head(sorted)), SortKey(r))
    THEN << Head(sorted) >> \o InsertRow(Tail(sorted), r)
    ELSE << r >> \o sorted

\* all_rows.sort(key=..., reverse=True)
RECURSIVE SortRows(_)
SortRows(rows) ==
    IF Len(rows) = 0 THEN << >>
    ELSE InsertRow(SortRows(SubSeq(rows, 1, Len(rows) - 1)), rows[Len(rows)])

(***************************************************************************)
(* State                                                                   *)
(***************************************************************************)
VARIABLES
    city_sources,  \* CITY_SOURCES: the registry main() iterates over
    idx,           \* position of the for loop: index of the next source
    all_rows,      \* main()'s accumulating list
    fetched,       \* per visited source: what its endpoint answered and what it added
    collected,     \* all_rows as it stood at the end of the source loop
    pc,            \* "loop", "done" or "crashed" (an exception left main)
    out_file,      \* adu_permits.csv
    prior_file,    \* adu_permits.csv as it was before the run
    opened,        \* whether the run opened adu_permits.csv for writing
    exit_code,     \* value returned by main(), -1 while running
    reader_row,    \* normalizer harness: one csv.DictReader row
    raw,           \* normalizer harness: the row after parse_csv_text
    out,           \* normalizer harness: the normalized row
    out_city,      \* normalizer harness: the city_name given to the normalizer
    npc            \* normalizer harness: "row", "parsed", "bellevue", "generic"

mainVars == << city_sources, idx, all_rows, fetched, collected, pc, out_file,
               prior_file, opened, exit_code >>
normVars == << reader_row, raw, out, out_city, npc >>
vars == << city_sources, idx, all_rows, fetched, collected, pc, out_file,
           prior_file, opened, exit_code, reader_row, raw, out, out_city, npc >>

(***************************************************************************)
(* Inputs of the pipeline                                                  *)
(***************************************************************************)
CitySource(city_name, type, format) ==
    [city_name |-> city_name, type |-> type, format |-> format]

SourceKinds ==
    { CitySource("Bellevue", "csv", "bellevue_adu"),
      CitySource("Shoreline", "csv", "generic_csv"),
      CitySource("Kirkland", "csv", "kirkland_xlsx"),
      CitySource("Seattle", "json", "arcgis_features") }

SeqsUpTo(S, n) == UNION { [1..k -> S] : k \in 0..n }

\* csv.DictReader rows served by the endpoints
IssuedRow ==
    << Cell("PROJECT NAME", "Backyard cottage"), Cell("PERMIT STATUS", "Issued"),
       Cell("ISSUE DATE", "2024-03-01T08:00:00") >>

CancelledRow ==
    << Cell("PROJECT NAME", ""), Cell("PERMIT STATUS", " Cancelled "),
       Cell("ISSUE DATE", "3/1/2024"), RestCell >>

UndatedRow ==
    << Cell("PROJECT NAME", "Garage conversion"), ShortCell("PERMIT STATUS"),
       ShortCell("ISSUE DATE") >>

OldRow ==
    << Cell("PROJECT NAME", "Smith remodel"), Cell("PERMIT STATUS", "Finaled"),
       Cell("ISSUE DATE", "1965-05-01") >>

SampleRows == { IssuedRow, CancelledRow, UndatedRow, OldRow }

Bodies == SeqsUpTo(SampleRows, MaxRecords)

\* resp.text: whether it is non-empty, and the rows csv.DictReader decodes from it
Text(nonempty, reader) == [nonempty |-> nonempty, reader |-> reader]

\* what requests.get does: raise, or return a response
Response(raises, status_code, text) ==
    [raises |-> raises, status_code |-> status_code, text |-> text]

Responses ==
    { Response(TRUE, 0, Text(FALSE, << >>)),
      Response(FALSE, 503, Text(TRUE, << >>)),
      Response(FALSE, 200, Text(FALSE, << >>)) }
    \cup { Response(FALSE, 200, Text(TRUE, b)) : b \in Bodies }

\* the attributes of two features of a feature-service document
IssuedFeature ==
    << Cell("PERMIT STATUS", "Issued"), Cell("ISSUE DATE", "1700000000000") >>

CancelledFeature ==
    << Cell("PERMIT STATUS", "Cancelled"), Cell("ISSUE DATE", "1700000000000") >>

\* what a feature-service endpoint holds: a features list, or it is down
JsonResponses ==
    { Response(FALSE, 503, Text(TRUE, << >>)),
      Response(FALSE, 200, Text(TRUE, << IssuedFeature, CancelledFeature >>)) }

CsvFile(rows) == [exists |-> TRUE, header |-> OUTPUT_FIELDNAMES, rows |-> rows]

\* adu_permits.csv as an earlier run left it
PriorFile == CsvFile(<< normalize_generic_csv("Shoreline", ("Status" :> "Issued")) >>)

(***************************************************************************)
(* fetch_text                                                              *)
(***************************************************************************)
\* the Optional[str] result; raised is TRUE when an exception leaves the function
Fetched(none, text, raised) == [none |-> none, text |-> text, raised |-> raised]

\* variant: no try/except around requests.get
fetch_text_uncaught(resp) ==
    IF resp.raises THEN Fetched(TRUE, Text(FALSE, << >>), TRUE)
    ELSE IF resp.status_code # 200 THEN Fetched(TRUE, Text(FALSE, << >>), FALSE)
    ELSE Fetched(FALSE, resp.text, FALSE)

fetch_text(resp) ==
    IF resp.raises THEN Fetched(TRUE, Text(FALSE, << >>), FALSE)
    ELSE IF resp.status_code # 200 THEN Fetched(TRUE, Text(FALSE, << >>), FALSE)
    ELSE Fetched(FALSE, resp.text, FALSE)

\* `not text`
NotText(r) == r.none \/ ~r.text.nonempty

\* variant: the empty check never taken
NoRowsNever(rows) == FALSE

\* `not all_rows`
NoRows(rows) == Len(rows) = 0

(***************************************************************************)
(* main: one action per way a loop iteration can go, then the end of the   *)
(* run                                                                     *)
(***************************************************************************)
InLoop == pc = "loop" /\ idx <= Len(city_sources)

src == city_sources[idx]

LogEntry(s, ok, reader, added) ==
    [city |-> s.city_name, ok |-> ok, reader |-> reader, added |-> added]

RECURSIVE MapBellevue(_)
MapBellevue(parsed) ==
    IF Len(parsed) = 0 THEN << >>
    ELSE << normalize_bellevue_adu(Head(parsed)) >> \o MapBellevue(Tail(parsed))

RECURSIVE MapGeneric(_, _)
MapGeneric(city_name, parsed) ==
    IF Len(parsed) = 0 THEN << >>
    ELSE << normalize_generic_csv(city_name, Head(parsed)) >>
         \o MapGeneric(city_name, Tail(parsed))

Continue(entry, rows) ==
    /\ all_rows' = all_rows \o rows
    /\ fetched' = Append(fetched, entry)
    /\ idx' = idx + 1
    /\ UNCHANGED << city_sources, collected, pc, out_file, prior_file, opened, exit_code >>

Crash ==
    /\ pc' = "crashed"
    /\ exit_code' = 1
    /\ UNCHANGED << city_sources, idx, all_rows, fetched, collected, out_file,
                    prior_file, opened >>

\* csv source, fetch_text gave None or "": warn and continue
VisitNoData ==
    /\ InLoop /\ src.type = "csv"
    /\ \E resp \in Responses :
         LET text == fetch_text(resp)
         IN  /\ text.raised \/ NotText(text)
             /\ IF text.raised THEN Crash
                ELSE Continue(LogEntry(src, FALSE, << >>, 0), << >>)
    /\ UNCHANGED normVars

VisitBellevue ==
    /\ InLoop /\ src.type = "csv" /\ src.format = "bellevue_adu"
    /\ \E resp \in Responses :
         LET text == fetch_text(resp)
             rows == MapBellevue(parse_csv_text(text.text.reader))
         IN  /\ ~text.raised /\ ~NotText(text)
             /\ Continue(LogEntry(src, TRUE, text.text.reader, Len(rows)), rows)
    /\ UNCHANGED normVars

VisitGeneric ==
    /\ InLoop /\ src.type = "csv" /\ src.format = "generic_csv"
    /\ \E resp \in Responses :
         LET text == fetch_text(resp)
             rows == MapGeneric(src.city_name, parse_csv_text(text.text.reader))
         IN  /\ ~text.raised /\ ~NotText(text)
             /\ Continue(LogEntry(src, TRUE, text.text.reader, Len(rows)), rows)
    /\ UNCHANGED normVars

\* csv source with an unknown format: fetched and parsed, then skipped (the log
\* does not keep the rows, nothing reads them)
VisitUnsupportedFormat ==
    /\ InLoop /\ src.type = "csv" /\ src.format \notin {"bellevue_adu", "generic_csv"}
    /\ \E resp \in Responses :
         LET text == fetch_text(resp)
         IN  /\ ~text.raised /\ ~NotText(text)
             /\ Continue(LogEntry(src, TRUE, << >>, 0), << >>)
    /\ UNCHANGED normVars

\* any type other than "csv": skipped without a fetch; the log keeps what the
\* endpoint holds
VisitUnsupportedType ==
    /\ InLoop /\ src.type # "csv"
    /\ \E resp \in JsonResponses :
         Continue(LogEntry(src, resp.status_code = 200, resp.text.reader, 0), << >>)
    /\ UNCHANGED normVars

\* end of the loop with nothing collected: warn, return 0
FinishNoRows ==
    /\ pc = "loop" /\ idx > Len(city_sources)
    /\ NoRows(all_rows)
    /\ collected' = all_rows
    /\ pc' = "done"
    /\ exit_code' = 0
    /\ UNCHANGED << city_sources, idx, all_rows, fetched, out_file, prior_file, opened >>
    /\ UNCHANGED normVars

\* end of the loop with rows: sort, write header and rows, return 0
FinishWrite ==
    /\ pc = "loop" /\ idx > Len(city_sources)
    /\ ~NoRows(all_rows)
    /\ collected' = all_rows
    /\ all_rows' = SortRows(all_rows)
    /\ opened' = TRUE
    /\ out_file' = CsvFile(all_rows')
    /\ pc' = "done"
    /\ exit_code' = 0
    /\ UNCHANGED << city_sources, idx, fetched, prior_file >>
    /\ UNCHANGED normVars

NormIdle ==
    /\ reader_row = << >> /\ raw = EmptyDict /\ out = EmptyDict
    /\ out_city = "" /\ npc = "idle"

Init ==
    /\ city_sources \in SeqsUpTo(SourceKinds, MaxSources)
    /\ idx = 1
    /\ all_rows = << >>
    /\ fetched = << >>
    /\ collected = << >>
    /\ pc = "loop"
    /\ prior_file = PriorFile
    /\ out_file = prior_file
    /\ opened = FALSE
    /\ exit_code = -1
    /\ NormIdle

Next ==
    \/ VisitNoData
    \/ VisitBellevue
    \/ VisitGeneric
    \/ VisitUnsupportedFormat
    \/ VisitUnsupportedType
    \/ FinishNoRows
    \/ FinishWrite

Spec == Init /\ [][Next]_vars

(***************************************************************************)
(* Normalizer harness: parse_csv_text on one DictReader row, then either   *)
(* normalizer on the parsed record.                                        *)
(***************************************************************************)
ProjectCells ==
    { << >>,
      << Cell("PROJECT NAME", " Backyard cottage ") >>,
      << Cell("PROJECT NAME", "Detached garage") >>,
      << Cell("PROJECT NAME", ""), Cell("Project Name", "Garage conversion") >>,
      << Cell("PROJECT NAME", "Smith remodel") >> }

TypeCells ==
    { << >>, << Cell("PERMIT TYPE", "dadu") >>, << Cell("PERMIT TYPE", "Conversion") >> }

StatusCells ==
    { << >>,
      << Cell(" PERMIT STATUS ", " Issued ") >>,
      << ShortCell("PERMIT STATUS"), Cell("Status", "Cancelled") >> }

NumberCells ==
    { << >>,
      << Cell("PERMIT NUMBER", "22-100") >>,
      << Cell("PERMIT NUMBER", ""), Cell("Permit Number", "P7") >> }

YearCells ==
    { << >>, << Cell("PERMIT YEAR", " 2022 ") >>, << Cell("PERMIT YEAR", "-22") >> }

SequenceCells ==
    { << >>, << Cell("PERMIT SEQUENCE", "045") >>, << Cell("PERMIT SEQUENCE", "045-") >> }

DateCells ==
    { << >>,
      << Cell("ISSUE DATE", "2024-03-01") >>,
      << Cell("ISSUE DATE", "2024-03-01T00:00:00") >>,
      << Cell("ISSUE DATE", "3/1/2024") >>,
      << Cell("ISSUE DATE", "1700000000000") >>,
      << Cell("ISSUE DATE", ""), Cell("Issue Date", "2023-01-15 10:30:00") >> }

OtherCells ==
    { << >>,
      << Cell("PARCEL NUMBER", "1234"), Cell("Zoning", "R-5"), RestCell >> }

ReaderRows ==
    { p \o t \o st \o n \o y \o q \o d \o o :
        p \in ProjectCells, t \in TypeCells, st \in StatusCells, n \in NumberCells,
        y \in YearCells, q \in SequenceCells, d \in DateCells, o \in OtherCells }

CityNames == { "Shoreline" }

MainIdle ==
    /\ city_sources = << >> /\ idx = 1 /\ all_rows = << >> /\ fetched = << >>
    /\ collected = << >> /\ pc = "idle" /\ out_file = PriorFile
    /\ prior_file = PriorFile /\ opened = FALSE /\ exit_code = -1

NormInit ==
    /\ MainIdle
    /\ reader_row \in ReaderRows
    /\ raw = EmptyDict
    /\ out = EmptyDict
    /\ out_city = ""
    /\ npc = "row"

ParseRow ==
    /\ npc = "row"
    /\ raw' = parse_csv_text(<< reader_row >>)[1]
    /\ npc' = "parsed"
    /\ UNCHANGED << reader_row, out, out_city >>
    /\ UNCHANGED mainVars

NormalizeBellevue ==
    /\ npc = "parsed"
    /\ out' = normalize_bellevue_adu(raw)
    /\ out_city' = "Bellevue"
    /\ npc' = "bellevue"
    /\ UNCHANGED << reader_row, raw >>
    /\ UNCHANGED mainVars

NormalizeGeneric ==
    /\ npc = "parsed"
    /\ \E city_name \in CityNames :
         /\ out' = normalize_generic_csv(city_name, raw)
         /\ out_city' = city_name
    /\ npc' = "generic"
    /\ UNCHANGED << reader_row, raw >>
    /\ UNCHANGED mainVars

NormNext == ParseRow \/ NormalizeBellevue \/ NormalizeGeneric

NormSpec == NormInit /\ [][NormNext]_vars

Normalized == npc \in {"bellevue", "generic"}

(***************************************************************************)
(* Properties of the normalizers (checked under NormSpec)                  *)
(***************************************************************************)

\* C4: every row returned by normalize_bellevue_adu or normalize_generic_csv
\* has exactly the eleven schema keys, and every value is a string.
C4_ElevenStringKeys ==
    Normalized =>
        /\ DOMAIN out = OutputFieldSet
        /\ \A k \in DOMAIN out : out[k] \in STRING

\* an empty raw record went through the generic normalizer
C4_Witness == npc = "generic" /\ DOMAIN raw = {}

\* C6: Approval_Date of every normalized row is "" or a YYYY-MM-DD calendar date.
C6_IsoOrEmpty ==
    Normalized => out["Approval_Date"] = "" \/ IsCalendarDate(out["Approval_Date"])

NoDirectPermitNumber ==
    \A n \in {"PERMIT NUMBER", "Permit Number", "PERMITNUMBER"} : Strip(GetOrEmpty(raw, n)) = ""

\* C8: without a direct permit number, Permit_Number is year-sequence, the year
\* alone, the sequence alone, or "", each part unchanged.
C8_CompositePermitNumber ==
    (npc = "bellevue" /\ NoDirectPermitNumber) =>
        LET year == Strip(GetOrEmpty(raw, "PERMIT YEAR"))
            seq == Strip(GetOrEmpty(raw, "PERMIT SEQUENCE"))
        IN  out["Permit_Number"] =
                IF year # "" /\ seq # "" THEN year \o "-" \o seq
                ELSE IF year # "" THEN year
                ELSE IF seq # "" THEN seq
                ELSE ""

\* the upper-cased project name and permit type of the raw record
TypeText ==
    Upper(Strip(OrChain(raw, << "PROJECT NAME", "Project Name", "PROJECT_NAME" >>))
          \o " " \o GetOrEmpty(raw, "PERMIT TYPE"))

TypeClass ==
    IF \E kw \in {"DETACHED", "DADU", "BACKYARD"} : Contains(TypeText, kw) THEN "Detached"
    ELSE IF \E kw \in {"CONVERSION", "GARAGE"} : Contains(TypeText, kw) THEN "Conversion"
    ELSE "Attached/Unknown"

\* C9 as stated: ADU_Type is "Detached", "Conversion" or "Attached/Unknown",
\* detached keywords first.
C9_TypeLabels == npc = "bellevue" => out["ADU_Type"] = TypeClass

\* C9 as amended: ADU_Type is "Detached ADU", "Conversion ADU" or
\* "Attached/Unknown ADU", chosen by the same keywords, detached keywords first.
C9_TypeLabelsAdu == npc = "bellevue" => out["ADU_Type"] = TypeClass \o " ADU"

\* a record with both a detached and a conversion keyword was classified
C9_Witness ==
    /\ npc = "bellevue"
    /\ Contains(TypeText, "DETACHED") /\ Contains(TypeText, "GARAGE")
    /\ out["ADU_Type"] = "Detached ADU"

\* the candidate lists of the fields normalize_bellevue_adu coalesces
BellevueCandidates ==
    [ Project_Name  |-> << "PROJECT NAME", "Project Name", "PROJECT_NAME" >>,
      Status        |-> << "PERMIT STATUS", "Permit Status", "STATUS" >>,
      Parcel        |-> << "PARCEL NUMBER", "Parcel Number", "PARCEL" >>,
      Approval_Date |-> << "ISSUE DATE", "Issue Date", "APPROVAL DATE", "Approval Date" >>,
      Source_URL    |-> << "LINK", "Link", "URL", "PERMIT URL" >> ]

RECURSIVE FirstNonEmpty(_, _)
FirstNonEmpty(rec, names) ==
    IF Len(names) = 0 THEN ""
    ELSE IF Head(names) \in DOMAIN rec /\ Strip(rec[Head(names)]) # ""
    THEN Strip(rec[Head(names)])
    ELSE FirstNonEmpty(rec, Tail(names))

\* C10: every coalesced output field is the trimmed value of its first
\* non-empty candidate, and "" when no candidate has a value.
C10_FirstNonEmptyCandidate ==
    /\ npc = "bellevue" =>
         \A f \in DOMAIN BellevueCandidates :
            out[f] = FirstNonEmpty(raw, BellevueCandidates[f])
    /\ npc = "generic" =>
         \A f \in DOMAIN mapping_candidates :
            out[f] = FirstNonEmpty(raw, mapping_candidates[f])

(***************************************************************************)
(* Properties of main (checked under Spec)                                 *)
(***************************************************************************)
Wrote == pc = "done" /\ opened

Written == out_file.rows

IsCancelled(row) == StartsWith(Lower(Strip(row["Status"])), "cancel")

\* C1: no written row has a Status that, trimmed and lower-cased, begins with
\* "cancel".
C1_NoCancelledWritten ==
    Wrote => \A i \in 1..Len(Written) : ~IsCancelled(Written[i])

\* C2: a run that ends its source loop with no rows leaves adu_permits.csv as
\* it was, never opens it, and returns 0.
C2_EmptyRunKeepsFile ==
    (pc = "done" /\ Len(collected) = 0) =>
        /\ out_file = prior_file
        /\ ~opened
        /\ exit_code = 0

\* a run over a registry whose csv fetch failed ended with nothing collected
C2_Witness ==
    /\ pc = "done" /\ Len(collected) = 0 /\ exit_code = 0
    /\ \E i \in 1..Len(fetched) : city_sources[i].type = "csv" /\ ~fetched[i].ok

\* the rows a source contributes when its fetch succeeds
RowsFrom(s, reader) ==
    IF s.type = "csv" /\ s.format = "bellevue_adu"
    THEN MapBellevue(parse_csv_text(reader))
    ELSE IF s.type = "csv" /\ s.format = "generic_csv"
    THEN MapGeneric(s.city_name, parse_csv_text(reader))
    ELSE << >>

\* the visited sources whose fetch did not fail, in registry order
Survivors ==
    SelectSeq([i \in 1..Len(fetched) |-> i], LAMBDA i : fetched[i].ok)

\* the rows of a run over the given sources, none of which fails
RECURSIVE CleanRun(_)
CleanRun(ixs) ==
    IF Len(ixs) = 0 THEN << >>
    ELSE RowsFrom(city_sources[Head(ixs)], fetched[Head(ixs)].reader) \o CleanRun(Tail(ixs))

DateOf(row) == row["Approval_Date"]

\* the sort key the claim names: the date, or 1970-01-01 when it does not parse
KeyOf(row) == IF IsoParsable(DateOf(row)) THEN DateKey(DateOf(row)) ELSE 19700101

RECURSIVE KeysOf(_)
KeysOf(rows) == IF Len(rows) = 0 THEN << >> ELSE << KeyOf(Head(rows)) >> \o KeysOf(Tail(rows))

\* position of the i-th row in a stable descending order by the keys
Rank(keys, i) ==
    1 + Cardinality({ j \in 1..Len(keys) : keys[j] > keys[i] })
      + Cardinality({ j \in 1..(i - 1) : keys[j] = keys[i] })

StableDescending ==
    LET keys == KeysOf(collected)
    IN  /\ Len(Written) = Len(collected)
        /\ \A i \in 1..Len(collected) : Written[Rank(keys, i)] = collected[i]

C7_JsonFeatureRows ==
    \A i \in 1..Len(fetched) :
        (city_sources[i].type = "json" /\ fetched[i].ok) =>
            fetched[i].added = Len(fetched[i].reader)

====
